---- MODULE Spec2Model ----
(***************************************************************************)
(* Model of the Adafruit CircuitPython Trellis driver:                     *)
(*   adafruit_trellis/trellis.py      class TRELLIS (one HT16K33 board)    *)
(*   adafruit_trellis/trellis_set.py  class MATRIX  (a set of boards)      *)
(*                                                                         *)
(* Python integers are unbounded; a bytearray element keeps 8 bits (the    *)
(* CircuitPython runtime the driver targets stores the low byte of the     *)
(* value assigned).  Python values that reach the caller are encoded as    *)
(* records [t, v]: t is the Python type or the exception raised, v the     *)
(* integer value (False = 0, True = 1).                                    *)
(*                                                                         *)
(* The variables are the objects' fields.  Every method is an operator     *)
(* from the fields, the arguments and the bytes the bus returns to the     *)
(* fields afterwards, the value returned and the bus transactions made;    *)
(* a method that assigns a field is also an action.  The methods that      *)
(* only read (led_status, just_pressed, just_released) and what a call     *)
(* returns or transmits are stated about the operator, at every reachable  *)
(* state and for every argument.                                           *)
(***************************************************************************)
EXTENDS Integers, Sequences, FiniteSets, TLC

VARIABLES led_buffer, buttons_buffer, last_buttons, blink_rate, brightness,
          matrices

vars == <<led_buffer, buttons_buffer, last_buttons, blink_rate, brightness,
          matrices>>

(* ------------------------------ bounds --------------------------------- *)

\* number of TRELLIS objects that exist
NumBoards == 2
\* longest explicit *matrices argument list of a MATRIX method
MaxTargets == 2
\* longest argument list of the MATRIX constructor
MaxCtorArgs == 3

Boards == 0 .. (NumBoards - 1)

(* ------------------------- Python integer operators -------------------- *)

RECURSIVE BitAnd(_, _)
BitAnd(a, b) ==
    IF a = 0 \/ b = 0 THEN 0
    ELSE IF a = -1 THEN b
    ELSE IF b = -1 THEN a
    ELSE ((a % 2) * (b % 2)) + 2 * BitAnd(a \div 2, b \div 2)

RECURSIVE BitOr(_, _)
BitOr(a, b) ==
    IF a = 0 THEN b
    ELSE IF b = 0 THEN a
    ELSE IF a = -1 \/ b = -1 THEN -1
    ELSE (IF (a % 2) + (b % 2) > 0 THEN 1 ELSE 0) + 2 * BitOr(a \div 2, b \div 2)

BitNot(a) == (0 - a) - 1

Shl(a, n) == a * (2 ^ n)

Shr(a, n) == a \div (2 ^ n)

\* bytearray item assignment keeps the low 8 bits
Store8(v) == v % 256

(* ------------------------- Python values ------------------------------- *)

PyInt(n) == [t |-> "int", v |-> n]

PyBool(b) == [t |-> "bool", v |-> IF b THEN 1 ELSE 0]

PyNone == [t |-> "None", v |-> 0]

Raise(e) == [t |-> e, v |-> 0]

IsExc(r) == r.t \in {"ValueError", "IndexError", "TypeError", "OSError"}

Truthy(r) == r.t \in {"int", "bool"} /\ r.v # 0

(* ------------------------- trellis.py constants ------------------------ *)

HT16K33_OSCILATOR_ON == 33
HT16K33_BLINK_CMD == 128
HT16K33_BLINK_DISPLAYON == 1
HT16K33_CMD_BRIGHTNESS == 224
HT16K33_KEY_READ_CMD == 64

\* the LED table as it would be with one digit mistyped (0x3A for LED 1 as for LED 0)
ledLUTValues_mistyped == <<58, 58, 53, 52,
                           40, 41, 35, 36,
                           22, 27, 17, 16,
                           14, 13, 12, 2>>

ledLUTValues == <<58, 55, 53, 52,
                  40, 41, 35, 36,
                  22, 27, 17, 16,
                  14, 13, 12, 2>>

buttonLUTValues == <<7, 4, 2, 34,
                     5, 6, 0, 1,
                     3, 16, 48, 33,
                     19, 18, 17, 49>>

\* tuple[x] of Python: 0-based, a negative x counts from the end
LutHas(lut, x) == x >= 0 - Len(lut) /\ x < Len(lut)

LutGet(lut, x) == IF x >= 0 THEN lut[x + 1] ELSE lut[Len(lut) + x + 1]

ledLUT(x) == LutGet(ledLUTValues, x)

buttonLUT(x) == LutGet(buttonLUTValues, x)

(* ------------------------- class TRELLIS -------------------------------- *)
(* A method is an operator on the object's fields `self`; it yields the    *)
(* fields after the call, the value returned or the exception raised, and  *)
(* the bus transactions it performed, in order.                            *)

Zeros(n) == [i \in 0 .. (n - 1) |-> 0]

AsTuple(buf, n) == [i \in 1 .. n |-> buf[i - 1]]

Result(self, r, t) == [self |-> self, r |-> r, tx |-> t]

WriteTx(bytes) == [kind |-> "write", data |-> bytes]

ReadTx(bytes) == [kind |-> "read", data |-> bytes]

\* _write_cmd: one write transaction of the one-byte _temp buffer
_write_cmd(byte) == <<WriteTx(<<Store8(byte)>>)>>

\* blink_rate as it would be with the rate not shifted into bits 1..2
TRELLIS_blink_rate_unshifted(self, rate) ==
    LET masked == BitAnd(rate, 3)
    IN Result([self EXCEPT !.blink_rate = masked], PyNone,
              _write_cmd(BitOr(BitOr(HT16K33_BLINK_CMD, HT16K33_BLINK_DISPLAYON),
                              masked)))

\* blink_rate(rate) with an int: the setter
TRELLIS_blink_rate(self, rate) ==
    LET masked == BitAnd(rate, 3)
    IN Result([self EXCEPT !.blink_rate = masked], PyNone,
              _write_cmd(BitOr(BitOr(HT16K33_BLINK_CMD, HT16K33_BLINK_DISPLAYON),
                              Shl(masked, 1))))

\* brightness(brightness) with an int: the setter
TRELLIS_brightness(self, level) ==
    LET masked == BitAnd(level, 15)
    IN Result([self EXCEPT !.brightness = masked], PyNone,
              _write_cmd(BitOr(HT16K33_CMD_BRIGHTNESS, masked)))

\* blink_rate(*args), def blink_rate(self, rate=None): args is the list of
\* arguments of the call, each a Python value; no argument gives rate its default
TRELLIS_blink_rate_call(self, args) ==
    LET rate == IF args = <<>> THEN PyNone ELSE args[1]
    IN IF rate.t = "None" THEN Result(self, PyInt(self.blink_rate), <<>>)
       ELSE TRELLIS_blink_rate(self, rate.v)

\* brightness(*args), def brightness(self, brightness): the parameter has no
\* default, a call without the argument raises TypeError before the body runs
TRELLIS_brightness_call(self, args) ==
    IF args = <<>> THEN Result(self, Raise("TypeError"), <<>>)
    ELSE IF args[1].t = "None" THEN Result(self, PyInt(self.brightness), <<>>)
    ELSE TRELLIS_brightness(self, args[1].v)

\* show as it would be sending the 16 data bytes without the register address
TRELLIS_show_data_only(self) ==
    Result(self, PyNone, <<WriteTx([i \in 1 .. 16 |-> self.led_buffer[i]])>>)

TRELLIS_show(self) ==
    Result(self, PyNone, <<WriteTx(AsTuple(self.led_buffer, 17))>>)

\* led = ledLUT[x] >> 4
led_pair(x) == Shr(ledLUT(x), 4)

\* mask = 1 << (ledLUT[x] & 0x0f)
led_mask(x) == Shl(1, BitAnd(ledLUT(x), 15))

\* led_on as it would be with the pair stored from offset led * 2
led_set_bits_pair_base(buf, x) ==
    LET lo == led_pair(x) * 2
        hi == (led_pair(x) * 2) + 1
        b1 == [buf EXCEPT ![lo] = Store8(BitOr(@, led_mask(x)))]
    IN [b1 EXCEPT ![hi] = Store8(BitOr(@, Shr(led_mask(x), 8)))]

\* led_on as it would be with the store to the high byte of the pair left out
led_set_bits_low_only(buf, x) ==
    [buf EXCEPT ![(led_pair(x) * 2) + 1] = Store8(BitOr(@, led_mask(x)))]

\* the two |= statements of led_on
led_set_bits(buf, x) ==
    LET lo == (led_pair(x) * 2) + 1
        hi == (led_pair(x) * 2) + 2
        b1 == [buf EXCEPT ![lo] = Store8(BitOr(@, led_mask(x)))]
    IN [b1 EXCEPT ![hi] = Store8(BitOr(@, Shr(led_mask(x), 8)))]

\* led_off as it would be with the masks not inverted (&= mask)
led_clear_bits_keep_mask(buf, x) ==
    LET lo == (led_pair(x) * 2) + 1
        hi == (led_pair(x) * 2) + 2
        b1 == [buf EXCEPT ![lo] = Store8(BitAnd(@, led_mask(x)))]
    IN [b1 EXCEPT ![hi] = Store8(BitAnd(@, Shr(led_mask(x), 8)))]

\* the two &= statements of led_off
led_clear_bits(buf, x) ==
    LET lo == (led_pair(x) * 2) + 1
        hi == (led_pair(x) * 2) + 2
        b1 == [buf EXCEPT ![lo] = Store8(BitAnd(@, BitNot(led_mask(x))))]
    IN [b1 EXCEPT ![hi] = Store8(BitAnd(@, Shr(BitNot(led_mask(x)), 8)))]

\* bool(((buf[led*2+1] | buf[led*2+2] << 8) & mask) > 0)
led_test_bit(buf, x) ==
    BitAnd(BitOr(buf[(led_pair(x) * 2) + 1], Shl(buf[(led_pair(x) * 2) + 2], 8)),
           led_mask(x)) > 0

TRELLIS_led_on(self, x) ==
    IF 0 < x /\ x > 15 THEN Result(self, Raise("ValueError"), <<>>)
    ELSE IF ~LutHas(ledLUTValues, x) THEN Result(self, Raise("IndexError"), <<>>)
    ELSE Result([self EXCEPT !.led_buffer = led_set_bits(@, x)], PyNone, <<>>)

TRELLIS_led_off(self, x) ==
    IF 0 < x /\ x > 15 THEN Result(self, Raise("ValueError"), <<>>)
    ELSE IF ~LutHas(ledLUTValues, x) THEN Result(self, Raise("IndexError"), <<>>)
    ELSE Result([self EXCEPT !.led_buffer = led_clear_bits(@, x)], PyNone, <<>>)

TRELLIS_led_status(self, x) ==
    IF 1 < x /\ x > 16 THEN Result(self, Raise("ValueError"), <<>>)
    ELSE IF ~LutHas(ledLUTValues, x) THEN Result(self, Raise("IndexError"), <<>>)
    ELSE Result(self, PyBool(led_test_bit(self.led_buffer, x)), <<>>)

\* the loop of fill as it would be with buf[i] in place of buf[i+1]
fill_bytes_from_zero(buf, color) ==
    [i \in 0 .. 16 |-> IF i \in 0 .. 15 THEN (IF color # 0 THEN 255 ELSE 0) ELSE buf[i]]

\* fill = 0xff if color else 0x00; for i in range(16): buf[i+1] = fill
fill_bytes(buf, color) ==
    [i \in 0 .. 16 |-> IF i \in 1 .. 16 THEN (IF color # 0 THEN 255 ELSE 0) ELSE buf[i]]

TRELLIS_fill(self, color) ==
    Result([self EXCEPT !.led_buffer = fill_bytes(@, color)], PyNone, <<>>)

\* read_buttons as it would be without the copy to _last_buttons
TRELLIS_read_buttons_no_snapshot(self, raw) ==
    LET snap == self.last_buttons
        now == [i \in 0 .. 5 |-> raw[i + 1]]
    IN Result([self EXCEPT !.buttons_buffer = now],
              PyBool(snap # now),
              _write_cmd(HT16K33_KEY_READ_CMD) \o <<ReadTx(raw)>>)

\* read_buttons as it would be with the snapshot taken after the read
TRELLIS_read_buttons_late_snapshot(self, raw) ==
    LET now == [i \in 0 .. 5 |-> raw[i + 1]]
    IN Result([self EXCEPT !.last_buttons = now, !.buttons_buffer = now],
              PyBool(now # now),
              _write_cmd(HT16K33_KEY_READ_CMD) \o <<ReadTx(raw)>>)

\* raw: the 6 bytes the controller returns to readinto
TRELLIS_read_buttons(self, raw) ==
    LET snap == self.buttons_buffer
        now == [i \in 0 .. 5 |-> raw[i + 1]]
    IN Result([self EXCEPT !.last_buttons = snap, !.buttons_buffer = now],
              PyBool(snap # now),
              _write_cmd(HT16K33_KEY_READ_CMD) \o <<ReadTx(raw)>>)

\* a write the bus did not complete
FailedTx(bytes) == [kind |-> "write failed", data |-> bytes]

\* read_buttons with a failing bus as it would be with the copy to _last_buttons
\* made after the command write
TRELLIS_read_buttons_io_copy_late(self, raw, ok) ==
    IF ok THEN TRELLIS_read_buttons(self, raw)
    ELSE Result(self, Raise("OSError"), <<FailedTx(<<Store8(HT16K33_KEY_READ_CMD)>>)>>)

\* read_buttons on a bus that may fail: ok is whether i2c_device.write of the
\* key-read command succeeds; if not, its OSError leaves _write_cmd and
\* read_buttons after the copy to _last_buttons and before readinto
TRELLIS_read_buttons_io(self, raw, ok) ==
    IF ok THEN TRELLIS_read_buttons(self, raw)
    ELSE Result([self EXCEPT !.last_buttons = self.buttons_buffer],
                Raise("OSError"),
                <<FailedTx(<<Store8(HT16K33_KEY_READ_CMD)>>)>>)

\* buf[buttonLUT[button] >> 4] & (1 << (buttonLUT[button] & 0x0f))
key_bit(buf, button) ==
    BitAnd(buf[Shr(buttonLUT(button), 4)], Shl(1, BitAnd(buttonLUT(button), 15)))

_is_pressed(self, button) == key_bit(self.buttons_buffer, button)

_was_pressed(self, button) == key_bit(self.last_buttons, button)

\* just_pressed as it would be without the inversion of the previous state
TRELLIS_just_pressed_no_invert(self, button) ==
    IF button > 15 THEN Result(self, Raise("ValueError"), <<>>)
    ELSE IF ~LutHas(buttonLUTValues, button) THEN Result(self, Raise("IndexError"), <<>>)
    ELSE Result(self,
                PyInt(BitAnd(_is_pressed(self, button), _was_pressed(self, button))),
                <<>>)

TRELLIS_just_pressed(self, button) ==
    IF button > 15 THEN Result(self, Raise("ValueError"), <<>>)
    ELSE IF ~LutHas(buttonLUTValues, button) THEN Result(self, Raise("IndexError"), <<>>)
    ELSE Result(self,
                PyInt(BitAnd(_is_pressed(self, button), BitNot(_was_pressed(self, button)))),
                <<>>)

TRELLIS_just_released(self, button) ==
    IF button > 15 THEN Result(self, Raise("ValueError"), <<>>)
    ELSE IF ~LutHas(buttonLUTValues, button) THEN Result(self, Raise("IndexError"), <<>>)
    ELSE Result(self,
                PyInt(BitAnd(BitNot(_is_pressed(self, button)), _was_pressed(self, button))),
                <<>>)

\* __init__: zeroed buffers, fill(0), oscillator on, blink_rate(0), brightness(15)
TRELLIS_init ==
    LET blank == [led_buffer |-> Zeros(17), buttons_buffer |-> Zeros(6),
                  last_buttons |-> Zeros(6), blink_rate |-> 0, brightness |-> 0]
        s1 == TRELLIS_fill(blank, 0).self
        s2 == TRELLIS_blink_rate(s1, 0).self
    IN TRELLIS_brightness(s2, 15).self

\* dispatch of one method call on one board
TRELLIS_call(self, name, arg, raw) ==
    CASE name = "led_on" -> TRELLIS_led_on(self, arg)
      [] name = "led_off" -> TRELLIS_led_off(self, arg)
      [] name = "led_status" -> TRELLIS_led_status(self, arg)
      [] name = "fill" -> TRELLIS_fill(self, arg)
      [] name = "show" -> TRELLIS_show(self)
      [] name = "blink_rate" -> TRELLIS_blink_rate(self, arg)
      [] name = "brightness" -> TRELLIS_brightness(self, arg)
      [] name = "read_buttons" -> TRELLIS_read_buttons(self, raw)
      [] name = "just_pressed" -> TRELLIS_just_pressed(self, arg)
      [] name = "just_released" -> TRELLIS_just_released(self, arg)

(* ------------------------- the boards as state -------------------------- *)

\* the fields of board b
Self(b) == [led_buffer |-> led_buffer[b], buttons_buffer |-> buttons_buffer[b],
            last_buttons |-> last_buttons[b], blink_rate |-> blink_rate[b],
            brightness |-> brightness[b]]

\* all boards' fields, as one function
World == [b \in Boards |-> Self(b)]

\* the variables take the fields of every board from w
SetWorld(w) ==
    /\ led_buffer' = [b \in Boards |-> w[b].led_buffer]
    /\ buttons_buffer' = [b \in Boards |-> w[b].buttons_buffer]
    /\ last_buttons' = [b \in Boards |-> w[b].last_buttons]
    /\ blink_rate' = [b \in Boards |-> w[b].blink_rate]
    /\ brightness' = [b \in Boards |-> w[b].brightness]

OnBoard(b, t) == [i \in 1 .. Len(t) |-> [board |-> b, kind |-> t[i].kind, data |-> t[i].data]]

(* ------------------------- inputs --------------------------------------- *)

\* LED numbers the application of a single board switches: both bytes of a
\* register pair and all four pairs occur
LedInputs == {0, 10, 15, 5}

\* arguments outside the valid range
BadIndexInputs == {16, 17, 0 - 1}

\* the bytes a key scan may return
ScanInputs == { <<0, 0, 0, 0, 0, 0>>,
                <<255, 15, 6, 3, 0, 0>>,
                <<129, 1, 0, 2, 0, 0>>,
                <<16, 8, 4, 1, 0, 0>>,
                <<0, 0, 0, 0, 0, 1>> }

\* more of them, for the specification that only scans
ManyScanInputs ==
    ScanInputs \cup { <<110, 6, 2, 0, 0, 0>>,
                      <<1, 0, 0, 0, 0, 0>>,
                      <<0, 0, 2, 0, 0, 0>>,
                      <<255, 255, 255, 255, 255, 255>>,
                      <<129, 1, 0, 2, 16, 0>>,
                      <<0, 0, 0, 0, 128, 0>>,
                      <<170, 5, 4, 2, 0, 0>> }

NoScan == <<0, 0, 0, 0, 0, 0>>

FillInputs == {0, 1}

BrightnessInputs == {15, 3, 20}

BlinkInputs == {0, 2, 5}

(* ------------------------- a board used on its own ---------------------- *)

\* the board the single-board specification drives
Solo == 0

\* board b takes the fields a method call left
Assign(b, res) == SetWorld([World EXCEPT ![b] = res.self])

T_led_on ==
    \E x \in LedInputs \cup BadIndexInputs :
        /\ Assign(Solo, TRELLIS_led_on(Self(Solo), x))
        /\ UNCHANGED matrices

T_led_off ==
    \E x \in LedInputs \cup BadIndexInputs :
        /\ Assign(Solo, TRELLIS_led_off(Self(Solo), x))
        /\ UNCHANGED matrices

T_fill ==
    \E c \in FillInputs :
        /\ Assign(Solo, TRELLIS_fill(Self(Solo), c))
        /\ UNCHANGED matrices

T_show ==
    /\ Assign(Solo, TRELLIS_show(Self(Solo)))
    /\ UNCHANGED matrices

T_blink_rate ==
    \E r \in BlinkInputs :
        /\ Assign(Solo, TRELLIS_blink_rate(Self(Solo), r))
        /\ UNCHANGED matrices

T_brightness ==
    \E v \in BrightnessInputs :
        /\ Assign(Solo, TRELLIS_brightness(Self(Solo), v))
        /\ UNCHANGED matrices

T_read_buttons ==
    \E raw \in ScanInputs :
        /\ Assign(Solo, TRELLIS_read_buttons(Self(Solo), raw))
        /\ UNCHANGED matrices

\* every TRELLIS object right after its constructor
InitBoards ==
    /\ led_buffer = [b \in Boards |-> TRELLIS_init.led_buffer]
    /\ buttons_buffer = [b \in Boards |-> TRELLIS_init.buttons_buffer]
    /\ last_buttons = [b \in Boards |-> TRELLIS_init.last_buttons]
    /\ blink_rate = [b \in Boards |-> TRELLIS_init.blink_rate]
    /\ brightness = [b \in Boards |-> TRELLIS_init.brightness]

InitBoard == InitBoards /\ matrices = <<>>

NextBoard ==
    \/ T_led_on
    \/ T_led_off
    \/ T_fill
    \/ T_show
    \/ T_blink_rate
    \/ T_brightness
    \/ T_read_buttons

SpecBoard == InitBoard /\ [][NextBoard]_vars

\* The frame buffer and the two settings are read and written by led_on, led_off,
\* fill, show, blink_rate and brightness only, the scan buffers by read_buttons
\* only: the two groups are also explored apart, each over more inputs.
NextLed ==
    \/ T_led_on
    \/ T_led_off
    \/ T_fill
    \/ T_show
    \/ T_blink_rate
    \/ T_brightness

SpecLed == InitBoard /\ [][NextLed]_vars

T_scan ==
    \E raw \in ManyScanInputs :
        /\ Assign(Solo, TRELLIS_read_buttons(Self(Solo), raw))
        /\ UNCHANGED matrices

NextKeys == T_scan

SpecKeys == InitBoard /\ [][NextKeys]_vars

\* a scan during which the write of the key-read command fails
T_scan_fail ==
    /\ Assign(Solo, TRELLIS_read_buttons_io(Self(Solo), NoScan, FALSE))
    /\ UNCHANGED matrices

\* a scan on a bus that works
T_scan_ok ==
    \E raw \in ManyScanInputs :
        /\ Assign(Solo, TRELLIS_read_buttons_io(Self(Solo), raw, TRUE))
        /\ UNCHANGED matrices

\* scans on a bus that may fail
NextKeysIO ==
    \/ T_scan_ok
    \/ T_scan_fail

SpecKeysIO == InitBoard /\ [][NextKeysIO]_vars

(* ------------------------- class MATRIX --------------------------------- *)
(* A method is an operator on the fields of all boards (world), the list   *)
(* self._matrices (ms), the arguments and the explicit *matrices list      *)
(* (targets); it yields the boards' fields afterwards, the value returned  *)
(* or the exception raised, and the bus transactions made, in order.       *)

MResult(world, r, t) == [world |-> world, r |-> r, tx |-> t]

SeqsUpTo(S, n) == UNION {[1 .. k -> S] : k \in 0 .. n}

\* for matrix in matrices: if matrix not in self._matrices: append
RECURSIVE Distinct(_, _)
Distinct(acc, args) ==
    IF args = <<>> THEN acc
    ELSE IF \E i \in 1 .. Len(acc) : acc[i] = Head(args)
         THEN Distinct(acc, Tail(args))
         ELSE Distinct(Append(acc, Head(args)), Tail(args))

\* __init__ as it would be without the `not in self._matrices` test
MATRIX_init_keep_duplicates(args) ==
    IF args = <<>> THEN [r |-> Raise("ValueError"), matrices |-> <<>>]
    ELSE IF Len(args) > 8 THEN [r |-> Raise("ValueError"), matrices |-> <<>>]
    ELSE [r |-> PyNone, matrices |-> args]

\* __init__(*matrices), every argument a TRELLIS object (its __qualname__, found
\* in the class namespace, is 'TRELLIS'); matrices: self._matrices when it ends
MATRIX_init(args) ==
    IF args = <<>> THEN [r |-> Raise("ValueError"), matrices |-> <<>>]
    ELSE IF Len(args) > 8 THEN [r |-> Raise("ValueError"), matrices |-> <<>>]
    ELSE [r |-> PyNone, matrices |-> Distinct(<<>>, args)]

\* _get_matrix as it would be counting the boards from the end of the list
_get_matrix_from_end(ms, position) ==
    IF position > 16 * Len(ms) \/ position < 0
    THEN [t |-> "None", matrix |-> 0, offset |-> 0]
    ELSE IF position \div 16 >= Len(ms)
    THEN [t |-> "IndexError", matrix |-> 0, offset |-> 0]
    ELSE [t |-> "ok", matrix |-> ms[Len(ms) - (position \div 16)], offset |-> position % 16]

\* _get_matrix as it would be with the local position not reduced mod 16
_get_matrix_raw_offset(ms, position) ==
    IF position > 16 * Len(ms) \/ position < 0
    THEN [t |-> "None", matrix |-> 0, offset |-> 0]
    ELSE IF position \div 16 >= Len(ms)
    THEN [t |-> "IndexError", matrix |-> 0, offset |-> 0]
    ELSE [t |-> "ok", matrix |-> ms[(position \div 16) + 1], offset |-> position]

\* _get_matrix: (None, None), or (self._matrices[int(position / 16)], position % 16),
\* or the IndexError of the list subscript
_get_matrix(ms, position) ==
    IF position > 16 * Len(ms) \/ position < 0
    THEN [t |-> "None", matrix |-> 0, offset |-> 0]
    ELSE IF position \div 16 >= Len(ms)
    THEN [t |-> "IndexError", matrix |-> 0, offset |-> 0]
    ELSE [t |-> "ok", matrix |-> ms[(position \div 16) + 1], offset |-> position % 16]

\* for matrix in seq: matrix.<name>(arg), the i-th scan reading raws[i];
\* rs: what the calls returned
RECURSIVE ForEach(_, _, _, _, _)
ForEach(world, seq, name, arg, raws) ==
    IF seq = <<>> THEN [world |-> world, rs |-> <<>>, tx |-> <<>>]
    ELSE LET b == Head(seq)
             res == TRELLIS_call(world[b], name, arg, Head(raws))
             rest == ForEach([world EXCEPT ![b] = res.self], Tail(seq), name, arg,
                             Tail(raws))
         IN [world |-> rest.world,
             rs |-> <<res.r>> \o rest.rs,
             tx |-> OnBoard(b, res.tx) \o rest.tx]

NoScans(seq) == [i \in 1 .. Len(seq) |-> NoScan]

\* the fan-out as it would be with a return inside the loop (first board only)
FanOut_first_only(world, ms, name, arg, targets) ==
    LET seq == IF targets = <<>> THEN SubSeq(ms, 1, 1) ELSE SubSeq(targets, 1, 1)
        first == ForEach(world, seq, name, arg, NoScans(seq))
    IN MResult(first.world, PyNone, first.tx)

\* if not matrices: for matrix in self._matrices: ...  /  for matrix in matrices: ...
FanOut(world, ms, name, arg, targets) ==
    LET own == IF targets = <<>> THEN ms ELSE <<>>
        first == ForEach(world, own, name, arg, NoScans(own))
        second == ForEach(first.world, targets, name, arg, NoScans(targets))
    IN MResult(second.world, PyNone, first.tx \o second.tx)

MATRIX_blink_rate(world, ms, rate, targets) == FanOut(world, ms, "blink_rate", rate, targets)

MATRIX_brightness(world, ms, level, targets) == FanOut(world, ms, "brightness", level, targets)

MATRIX_show(world, ms, targets) == FanOut(world, ms, "show", 0, targets)

MATRIX_fill(world, ms, color, targets) == FanOut(world, ms, "fill", color, targets)

\* one call on one board, its result returned to the caller
Delegate(world, b, name, arg) ==
    LET res == TRELLIS_call(world[b], name, arg, NoScan)
    IN MResult([world EXCEPT ![b] = res.self], res.r, OnBoard(b, res.tx))

\* the pattern of led_on, led_off and led_status
Resolved(world, ms, name, x, targets) ==
    IF targets = <<>>
    THEN LET found == _get_matrix(ms, x)
         IN IF found.t = "IndexError" THEN MResult(world, Raise("IndexError"), <<>>)
            ELSE IF found.t = "None" THEN MResult(world, PyBool(FALSE), <<>>)
            ELSE Delegate(world, found.matrix, name, found.offset)
    ELSE Delegate(world, Head(targets), name, x)

MATRIX_led_on(world, ms, x, targets) == Resolved(world, ms, "led_on", x, targets)

MATRIX_led_off(world, ms, x, targets) == Resolved(world, ms, "led_off", x, targets)

MATRIX_led_status(world, ms, x, targets) == Resolved(world, ms, "led_status", x, targets)

\* read_buttons as it would be with `=` in place of `|=` (the last board's result)
MATRIX_read_buttons_last_only(world, ms, targets, raws) ==
    LET seq == IF targets = <<>> THEN ms ELSE targets
        all == ForEach(world, seq, "read_buttons", 0, raws)
    IN MResult(all.world,
               PyBool(Len(all.rs) > 0 /\ Truthy(all.rs[Len(all.rs)])),
               all.tx)

\* read_buttons as it would be if the loop stopped at the first board that changed
MATRIX_read_buttons_short_circuit(world, ms, targets, raws) ==
    LET seq == IF targets = <<>> THEN ms ELSE targets
        one == ForEach(world, SubSeq(seq, 1, 1), "read_buttons", 0, raws)
        all == ForEach(world, seq, "read_buttons", 0, raws)
    IN IF seq # <<>> /\ Truthy(one.rs[1]) THEN MResult(one.world, PyBool(TRUE), one.tx)
       ELSE MResult(all.world, PyBool(\E i \in 1 .. Len(all.rs) : Truthy(all.rs[i])), all.tx)

\* read_results = False; read_results |= matrix.read_buttons() for each board
MATRIX_read_buttons(world, ms, targets, raws) ==
    LET seq == IF targets = <<>> THEN ms ELSE targets
        all == ForEach(world, seq, "read_buttons", 0, raws)
    IN MResult(all.world, PyBool(\E i \in 1 .. Len(all.rs) : Truthy(all.rs[i])), all.tx)

\* just_pressed / just_released as they would be with the global number passed on
Edge_raw_key(world, ms, name, button, targets) ==
    IF targets = <<>>
    THEN LET found == _get_matrix(ms, button)
         IN IF found.t = "IndexError" THEN MResult(world, Raise("IndexError"), <<>>)
            ELSE IF found.t = "None" THEN MResult(world, PyBool(FALSE), <<>>)
            ELSE Delegate(world, found.matrix, name, button)
    ELSE IF Len(targets) > 1 THEN MResult(world, Raise("ValueError"), <<>>)
    ELSE Delegate(world, Head(targets), name, button)

\* just_pressed / just_released as they would be without the len(matrices) > 1 test
Edge_first_of_many(world, ms, name, button, targets) ==
    IF targets = <<>>
    THEN LET found == _get_matrix(ms, button)
         IN IF found.t = "IndexError" THEN MResult(world, Raise("IndexError"), <<>>)
            ELSE IF found.t = "None" THEN MResult(world, PyBool(FALSE), <<>>)
            ELSE Delegate(world, found.matrix, name, found.offset)
    ELSE Delegate(world, Head(targets), name, button)

\* the pattern of just_pressed and just_released
Edge(world, ms, name, button, targets) ==
    IF targets = <<>>
    THEN LET found == _get_matrix(ms, button)
         IN IF found.t = "IndexError" THEN MResult(world, Raise("IndexError"), <<>>)
            ELSE IF found.t = "None" THEN MResult(world, PyBool(FALSE), <<>>)
            ELSE Delegate(world, found.matrix, name, found.offset)
    ELSE IF Len(targets) > 1 THEN MResult(world, Raise("ValueError"), <<>>)
    ELSE Delegate(world, Head(targets), name, button)

MATRIX_just_pressed(world, ms, button, targets) ==
    Edge(world, ms, "just_pressed", button, targets)

MATRIX_just_released(world, ms, button, targets) ==
    Edge(world, ms, "just_released", button, targets)

(* ------------------------- a set of boards ------------------------------ *)

\* the explicit *matrices lists a caller passes; <<>> is a call without one
TargetLists == SeqsUpTo(Boards, MaxTargets)

\* the LED of every board that the application of a set switches
SetLedLocal == 4

\* global positions: the first LED, that LED on every board and one board
\* further, the first position past the largest set, and -1
GlobalInputs ==
    {0 - 1, 0, 16 * NumBoards} \cup {(16 * k) + SetLedLocal : k \in 0 .. NumBoards}

\* raw numbers passed along with an explicit list
RawInputs == {SetLedLocal, 16 + SetLedLocal}

IndexInputs(targets) == IF targets = <<>> THEN GlobalInputs ELSE RawInputs

\* the bytes a key scan of a board of the set may return
SetScanInputs == { <<0, 0, 0, 0, 0, 0>>,
                   <<129, 1, 0, 2, 0, 0>> }

\* the bytes a key scan of a board scanned on its own may return
DirectScanInputs == SetScanInputs \cup { <<16, 1, 4, 0, 0, 1>> }

\* settings the application of a set passes (both exceed the field's width)
SetBrightnessInputs == {20}

SetBlinkInputs == {5}

\* the boards one set-wide read_buttons scans, in order
Scanned(ms, targets) == IF targets = <<>> THEN ms ELSE targets

\* what the bus returns to the scans of one set-wide read_buttons
RawsFor(seq) == [1 .. Len(seq) -> SetScanInputs]

\* a set built by the constructor from some argument list
InitSet ==
    /\ InitBoards
    /\ \E args \in SeqsUpTo(Boards, MaxCtorArgs) :
           /\ MATRIX_init(args).r = PyNone
           /\ matrices = MATRIX_init(args).matrices

M_led_on ==
    \E targets \in TargetLists :
        \E x \in IndexInputs(targets) :
            /\ SetWorld(MATRIX_led_on(World, matrices, x, targets).world)
            /\ UNCHANGED matrices

M_led_off ==
    \E targets \in TargetLists :
        \E x \in IndexInputs(targets) :
            /\ SetWorld(MATRIX_led_off(World, matrices, x, targets).world)
            /\ UNCHANGED matrices

M_fill ==
    \E targets \in TargetLists :
        \E c \in FillInputs :
            /\ SetWorld(MATRIX_fill(World, matrices, c, targets).world)
            /\ UNCHANGED matrices

M_show ==
    \E targets \in TargetLists :
        /\ SetWorld(MATRIX_show(World, matrices, targets).world)
        /\ UNCHANGED matrices

M_brightness ==
    \E targets \in TargetLists :
        \E v \in SetBrightnessInputs :
            /\ SetWorld(MATRIX_brightness(World, matrices, v, targets).world)
            /\ UNCHANGED matrices

M_blink_rate ==
    \E targets \in TargetLists :
        \E r \in SetBlinkInputs :
            /\ SetWorld(MATRIX_blink_rate(World, matrices, r, targets).world)
            /\ UNCHANGED matrices

M_read_buttons ==
    \E targets \in TargetLists :
        \E raws \in RawsFor(Scanned(matrices, targets)) :
            /\ SetWorld(MATRIX_read_buttons(World, matrices, targets, raws).world)
            /\ UNCHANGED matrices

\* the per-LED methods of a set, on filled and cleared frames
NextSetLed ==
    \/ M_led_on
    \/ M_led_off
    \/ M_fill

SpecSetLed == InitSet /\ [][NextSetLed]_vars

\* the whole-board methods of a set
NextSetFan ==
    \/ M_fill
    \/ M_show
    \/ M_brightness
    \/ M_blink_rate

SpecSetFan == InitSet /\ [][NextSetFan]_vars

\* a board of the set scanned through its own object
T_read_direct ==
    \E raw \in DirectScanInputs :
        /\ Assign(Solo, TRELLIS_read_buttons(Self(Solo), raw))
        /\ UNCHANGED matrices

\* the key scan of a set, and of one of its boards on its own
NextSetKeys ==
    \/ M_read_buttons
    \/ T_read_direct

SpecSetKeys == InitSet /\ [][NextSetKeys]_vars

\* the argument lists the constructor is called with: all short ones, and lists
\* of 7 to 10 references that go round the boards
CtorInputs ==
    SeqsUpTo(Boards, MaxCtorArgs) \cup
        {[i \in 1 .. k |-> (b + i) % NumBoards] : b \in Boards, k \in 7 .. 10}

\* m = MATRIX(*args): on an exception no new set comes into being
M_init ==
    \E args \in CtorInputs :
        /\ matrices' = IF MATRIX_init(args).r = PyNone
                       THEN MATRIX_init(args).matrices
                       ELSE matrices
        /\ UNCHANGED <<led_buffer, buttons_buffer, last_buttons, blink_rate, brightness>>

\* no set yet
InitNoSet == InitBoards /\ matrices = <<>>

\* sets are constructed, and the one that exists is used
NextCtor ==
    \/ M_init
    \/ matrices # <<>> /\ M_fill
    \/ matrices # <<>> /\ M_show
    \/ matrices # <<>> /\ M_brightness
    \/ matrices # <<>> /\ M_blink_rate

SpecCtor == InitNoSet /\ [][NextCtor]_vars

(* ------------------------- claims: one board ---------------------------- *)

\* bit k of byte v
Bit(v, k) == (v \div (2 ^ k)) % 2

\* the scan-buffer bit the button table gives button b: byte value >> 4, bit value & 0x0F
ButtonBitSet(buf, b) ==
    Bit(buf[buttonLUTValues[b + 1] \div 16], buttonLUTValues[b + 1] % 16) = 1

\* C1: on a single board, for every button b in 0..15 and every reachable pair of
\* scan buffers, just_pressed(b) is truthy exactly when b's mapped bit is set in the
\* current buffer and clear in the previous one, just_released(b) is truthy exactly
\* when it is clear in the current and set in the previous one, and both are falsy
\* when the bit has the same value in both.
C1_EdgeDetection ==
    \A b \in 0 .. 15 :
        LET cur == ButtonBitSet(buttons_buffer[Solo], b)
            prev == ButtonBitSet(last_buttons[Solo], b)
            pressed == TRELLIS_just_pressed(Self(Solo), b).r
            released == TRELLIS_just_released(Self(Solo), b).r
        IN /\ Truthy(pressed) <=> (cur /\ ~prev)
           /\ Truthy(released) <=> (~cur /\ prev)
           /\ (cur <=> prev) => (pressed = PyInt(0) /\ released = PyInt(0))

\* two scans happened; one button went down, another went up, a third is held
C1_Witness ==
    /\ \E b \in 0 .. 15 : Truthy(TRELLIS_just_pressed(Self(Solo), b).r)
    /\ \E b \in 0 .. 15 : Truthy(TRELLIS_just_released(Self(Solo), b).r)
    /\ \E b \in 0 .. 15 : /\ ButtonBitSet(buttons_buffer[Solo], b)
                          /\ ButtonBitSet(last_buttons[Solo], b)

\* C2: each read_buttons() leaves the previous buffer equal to the current buffer as
\* it was before the call and the current buffer equal to the 6 bytes read, and
\* returns true iff the two buffers differ in some byte; a second scan that reads
\* the same raw data returns false.
C2_ScanSnapshot ==
    \A raw \in ManyScanInputs :
        LET res == TRELLIS_read_buttons(Self(Solo), raw)
            again == TRELLIS_read_buttons(res.self, raw)
        IN /\ res.self.last_buttons = buttons_buffer[Solo]
           /\ \A i \in 0 .. 5 : res.self.buttons_buffer[i] = raw[i + 1]
           /\ res.r.t = "bool"
           /\ Truthy(res.r) <=> \E i \in 0 .. 5 : raw[i + 1] # buttons_buffer[Solo][i]
           /\ again.r = PyBool(FALSE)

\* a scan replaced a non-empty buffer: the previous buffer holds what the scan
\* before read, and both a changing and an unchanging scan are possible next
C2_Witness ==
    /\ last_buttons[Solo] # Zeros(6)
    /\ buttons_buffer[Solo] # last_buttons[Solo]
    /\ \E raw \in ManyScanInputs : Truthy(TRELLIS_read_buttons(Self(Solo), raw).r)
    /\ \E raw \in ManyScanInputs : ~Truthy(TRELLIS_read_buttons(Self(Solo), raw).r)

\* C3: for every i in 0..15 and every reachable frame buffer, led_on(i) followed by
\* led_status(i) returns true and led_off(i) followed by led_status(i) returns false.
C3_LedRoundTrip ==
    \A i \in 0 .. 15 :
        LET on == TRELLIS_led_on(Self(Solo), i)
            off == TRELLIS_led_off(Self(Solo), i)
        IN /\ on.r = PyNone
           /\ off.r = PyNone
           /\ TRELLIS_led_status(on.self, i).r = PyBool(TRUE)
           /\ TRELLIS_led_status(off.self, i).r = PyBool(FALSE)

\* led_on(0) acted on a cleared buffer: LED 0 is bit 10 of pair 3, bit 2 of byte 8
C3_Witness ==
    /\ led_buffer[Solo][8] = 4
    /\ led_buffer[Solo][7] = 0
    /\ TRELLIS_led_status(Self(Solo), 0).r = PyBool(TRUE)
    /\ TRELLIS_led_status(Self(Solo), 10).r = PyBool(FALSE)

\* C4: for every pair of distinct LEDs i, j in 0..15 and every reachable frame
\* buffer (those produced by fill included), led_on(i) and led_off(i) leave the
\* value returned by led_status(j) unchanged.
C4_LedIsolation ==
    \A i \in 0 .. 15 :
        LET on == TRELLIS_led_on(Self(Solo), i).self
            off == TRELLIS_led_off(Self(Solo), i).self
        IN \A j \in (0 .. 15) \ {i} :
               /\ TRELLIS_led_status(on, j).r = TRELLIS_led_status(Self(Solo), j).r
               /\ TRELLIS_led_status(off, j).r = TRELLIS_led_status(Self(Solo), j).r

\* led_off(5) acted on a filled buffer: LED 5 alone is off, the fill bytes remain
C4_Witness ==
    /\ led_buffer[Solo][16] = 255
    /\ TRELLIS_led_status(Self(Solo), 5).r = PyBool(FALSE)
    /\ \A j \in (0 .. 15) \ {5} : TRELLIS_led_status(Self(Solo), j).r = PyBool(TRUE)

(* ------------------------- claims: a set of boards ---------------------- *)

Range(seq) == {seq[i] : i \in 1 .. Len(seq)}

\* the frame-buffer position the LED table gives LED l: register pair value >> 4,
\* bit value & 0x0F of the pair stored low byte first from offset 2 * pair + 1
LedByte(l) == (2 * (ledLUTValues[l + 1] \div 16)) + 1 + ((ledLUTValues[l + 1] % 16) \div 8)

LedBit(l) == (ledLUTValues[l + 1] % 16) % 8

\* byte v with bit q made `value`
WithBit(v, q, value) == (v - (Bit(v, q) * (2 ^ q))) + (value * (2 ^ q))

\* buffer `new` is buffer `old` with the bit of LED l made `value` and nothing else
OnlyLedChanged(old, new, l, value) ==
    new = [old EXCEPT ![LedByte(l)] = WithBit(@, LedBit(l), value)]

\* C5: for a set of N boards, _get_matrix(g) yields (board at position g div 16,
\* g mod 16) for every g in [0, 16N) and (None, None) for every g < 0 and every
\* g >= 16N.
C5_Resolve ==
    \A g \in (0 - 3) .. ((16 * NumBoards) + 3) :
        LET found == _get_matrix(matrices, g)
        IN IF 0 <= g /\ g < 16 * Len(matrices)
           THEN /\ found.t = "ok"
                /\ found.matrix = matrices[(g \div 16) + 1]
                /\ found.offset = g % 16
           ELSE found.t = "None"

\* C6: for a set of N boards and g in [0, 16N), led_on(g) / led_off(g) without an
\* explicit board change only the frame-buffer bit of local LED g mod 16 on the
\* board at position g div 16; every other board and every other bit is unchanged.
C6_SetLedFrame ==
    \A g \in 0 .. ((16 * Len(matrices)) - 1) :
        LET b == matrices[(g \div 16) + 1]
            on == MATRIX_led_on(World, matrices, g, <<>>)
            off == MATRIX_led_off(World, matrices, g, <<>>)
        IN /\ on.r = PyNone
           /\ off.r = PyNone
           /\ \A c \in Boards \ {b} : on.world[c] = World[c] /\ off.world[c] = World[c]
           /\ [on.world[b] EXCEPT !.led_buffer = led_buffer[b]] = World[b]
           /\ [off.world[b] EXCEPT !.led_buffer = led_buffer[b]] = World[b]
           /\ OnlyLedChanged(led_buffer[b], on.world[b].led_buffer, g % 16, 1)
           /\ OnlyLedChanged(led_buffer[b], off.world[b].led_buffer, g % 16, 0)

\* led_on(20) acted on the cleared two-board set: the only bit set anywhere is
\* that of LED 4 (bit 8 of pair 2: bit 0 of byte 6) of the second board
C6_Witness ==
    /\ Len(matrices) = 2
    /\ led_buffer[matrices[1]] = Zeros(17)
    /\ led_buffer[matrices[2]] = [Zeros(17) EXCEPT ![6] = 1]
    /\ MATRIX_led_status(World, matrices, 20, <<>>).r = PyBool(TRUE)

\* C7: for g in [0, 16N), set-wide just_pressed(g) / just_released(g) without an
\* explicit board return exactly what the board at position g div 16 returns for
\* button g mod 16: an edge on button b of board k is reported at 16k+b only.
C7_SetEdges ==
    \A g \in 0 .. ((16 * Len(matrices)) - 1) :
        LET b == matrices[(g \div 16) + 1]
            pressed == MATRIX_just_pressed(World, matrices, g, <<>>)
            released == MATRIX_just_released(World, matrices, g, <<>>)
        IN /\ pressed.r = TRELLIS_just_pressed(Self(b), g % 16).r
           /\ released.r = TRELLIS_just_released(Self(b), g % 16).r
           /\ pressed.world = World /\ released.world = World
           /\ Truthy(pressed.r) <=> (/\ ButtonBitSet(buttons_buffer[b], g % 16)
                                     /\ ~ButtonBitSet(last_buttons[b], g % 16))
           /\ Truthy(released.r) <=> (/\ ~ButtonBitSet(buttons_buffer[b], g % 16)
                                      /\ ButtonBitSet(last_buttons[b], g % 16))

\* the second board of a two-board set saw a press and a release, the first none:
\* the edges are reported in 16..31 and nowhere in 0..15
C7_Witness ==
    /\ Len(matrices) = 2
    /\ \E g \in 16 .. 31 : Truthy(MATRIX_just_pressed(World, matrices, g, <<>>).r)
    /\ \E g \in 16 .. 31 : Truthy(MATRIX_just_released(World, matrices, g, <<>>).r)
    /\ \A g \in 0 .. 15 : /\ ~Truthy(MATRIX_just_pressed(World, matrices, g, <<>>).r)
                          /\ ~Truthy(MATRIX_just_released(World, matrices, g, <<>>).r)
    /\ buttons_buffer[matrices[1]] # Zeros(6)

\* the current buffer the i-th scan of seq finds: what an earlier scan of the same
\* board in this call read, else the board's buffer before the call
BufferBefore(seq, raws, i) ==
    IF \E j \in 1 .. (i - 1) : seq[j] = seq[i]
    THEN LET j == CHOOSE j \in 1 .. (i - 1) :
                      /\ seq[j] = seq[i]
                      /\ \A m \in (j + 1) .. (i - 1) : seq[m] # seq[i]
         IN [n \in 0 .. 5 |-> raws[j][n + 1]]
    ELSE buttons_buffer[seq[i]]

\* C8: set-wide read_buttons() without explicit boards scans every board of the set
\* exactly once, also after a board reported a change, and returns true iff some
\* board's own scan returned true; with an explicit list it scans exactly those
\* boards and returns the OR of their results.
C8_SetScan ==
    \A targets \in TargetLists :
        LET seq == IF targets = <<>> THEN matrices ELSE targets
        IN \A raws \in RawsFor(seq) :
               LET res == MATRIX_read_buttons(World, matrices, targets, raws)
               IN /\ Len(res.tx) = 2 * Len(seq)
                  /\ \A i \in 1 .. Len(seq) :
                         /\ res.tx[(2 * i) - 1] = [board |-> seq[i], kind |-> "write",
                                                   data |-> <<64>>]
                         /\ res.tx[2 * i] = [board |-> seq[i], kind |-> "read",
                                             data |-> raws[i]]
                  /\ res.r.t = "bool"
                  /\ Truthy(res.r) <=>
                         \E i \in 1 .. Len(seq) :
                             BufferBefore(seq, raws, i) # [n \in 0 .. 5 |-> raws[i][n + 1]]
                  /\ \A b \in Boards \ Range(seq) : res.world[b] = World[b]

\* a two-board set with keys held on both boards, where the next set-wide scan can
\* find a change on the first board and none on the second and still scans both
C8_Witness ==
    /\ Len(matrices) = 2
    /\ buttons_buffer[matrices[1]] # Zeros(6)
    /\ buttons_buffer[matrices[2]] # Zeros(6)
    /\ \E raws \in RawsFor(matrices) :
           LET res == MATRIX_read_buttons(World, matrices, <<>>, raws)
           IN /\ raws[1] # AsTuple(buttons_buffer[matrices[1]], 6)
              /\ raws[2] = AsTuple(buttons_buffer[matrices[2]], 6)
              /\ res.r = PyBool(TRUE)
              /\ Len(res.tx) = 4
              /\ res.world[matrices[2]].last_buttons = buttons_buffer[matrices[2]]

\* C9: a set-wide mutating operation (led_on, led_off, fill, brightness, blink_rate,
\* show) called with an explicit list of boards is applied, with the raw index or
\* value, to every board in that list and to no board outside it.
C9_ExplicitTargets ==
    \A targets \in TargetLists \ {<<>>} :
        /\ \A x \in RawInputs :
               /\ MATRIX_led_on(World, matrices, x, targets).world =
                      [b \in Boards |-> IF b \in Range(targets)
                                        THEN TRELLIS_led_on(Self(b), x).self
                                        ELSE Self(b)]
               /\ MATRIX_led_off(World, matrices, x, targets).world =
                      [b \in Boards |-> IF b \in Range(targets)
                                        THEN TRELLIS_led_off(Self(b), x).self
                                        ELSE Self(b)]
        /\ \A c \in FillInputs :
               MATRIX_fill(World, matrices, c, targets).world =
                   [b \in Boards |-> IF b \in Range(targets)
                                     THEN TRELLIS_fill(Self(b), c).self
                                     ELSE Self(b)]
        /\ \A v \in BrightnessInputs :
               MATRIX_brightness(World, matrices, v, targets).world =
                   [b \in Boards |-> IF b \in Range(targets)
                                     THEN TRELLIS_brightness(Self(b), v).self
                                     ELSE Self(b)]
        /\ \A r \in BlinkInputs :
               MATRIX_blink_rate(World, matrices, r, targets).world =
                   [b \in Boards |-> IF b \in Range(targets)
                                     THEN TRELLIS_blink_rate(Self(b), r).self
                                     ELSE Self(b)]
        /\ {t.board : t \in Range(MATRIX_show(World, matrices, targets).tx)} = Range(targets)

\* C10: a whole-board set-wide operation (fill, show, brightness, blink_rate) called
\* without explicit boards is applied exactly once to every board of the set with
\* the value passed through: after fill(c) the 16 data bytes of every board hold the
\* fill value, after brightness(v) / blink_rate(r) every board stores the masked
\* value, and show() transmits each board's frame exactly once.
C10_FanOutAll ==
    LET n == Len(matrices)
        others == Boards \ Range(matrices)
    IN /\ \A c \in FillInputs \cup {2} :
              LET res == MATRIX_fill(World, matrices, c, <<>>)
              IN /\ res.r = PyNone /\ res.tx = <<>>
                 /\ \A b \in Range(matrices) :
                        /\ \A i \in 1 .. 16 :
                               res.world[b].led_buffer[i] = IF c = 0 THEN 0 ELSE 255
                        /\ res.world[b].led_buffer[0] = led_buffer[b][0]
                        /\ [res.world[b] EXCEPT !.led_buffer = led_buffer[b]] = Self(b)
                 /\ \A b \in others : res.world[b] = Self(b)
       /\ \A v \in BrightnessInputs \cup SetBrightnessInputs \cup {0 - 1, 16} :
              LET res == MATRIX_brightness(World, matrices, v, <<>>)
              IN /\ res.r = PyNone
                 /\ \A b \in Range(matrices) :
                        res.world[b] = [Self(b) EXCEPT !.brightness = v % 16]
                 /\ \A b \in others : res.world[b] = Self(b)
                 /\ res.tx = [i \in 1 .. n |-> [board |-> matrices[i], kind |-> "write",
                                                data |-> <<224 + (v % 16)>>]]
       /\ \A r \in BlinkInputs \cup SetBlinkInputs \cup {0 - 1, 4} :
              LET res == MATRIX_blink_rate(World, matrices, r, <<>>)
              IN /\ res.r = PyNone
                 /\ \A b \in Range(matrices) :
                        res.world[b] = [Self(b) EXCEPT !.blink_rate = r % 4]
                 /\ \A b \in others : res.world[b] = Self(b)
                 /\ res.tx = [i \in 1 .. n |-> [board |-> matrices[i], kind |-> "write",
                                                data |-> <<129 + (2 * (r % 4))>>]]
       /\ LET res == MATRIX_show(World, matrices, <<>>)
          IN /\ res.r = PyNone
             /\ res.world = World
             /\ Len(res.tx) = n
             /\ \A i \in 1 .. n :
                    /\ res.tx[i].board = matrices[i]
                    /\ res.tx[i].kind = "write"
                    /\ Len(res.tx[i].data) = 17
                    /\ \A j \in 0 .. 16 : res.tx[i].data[j + 1] = led_buffer[matrices[i]][j]

\* fill(1), brightness(20) and blink_rate(5) acted on a two-board set: both boards
\* are filled and store 4 and 1, and show() would send two filled frames
C10_Witness ==
    /\ Len(matrices) = 2
    /\ \A b \in Range(matrices) :
           /\ \A i \in 1 .. 16 : led_buffer[b][i] = 255
           /\ brightness[b] = 4
           /\ blink_rate[b] = 1
    /\ Len(MATRIX_show(World, matrices, <<>>).tx) = 2

(* ------------------------- claims: errors ----------------------------- *)

\* indices outside 0..15, on both sides
OutOfRangeInputs == ((0 - 18) .. (0 - 1)) \cup (16 .. 18)

\* C11: every single-board per-index operation (led_on, led_off, led_status,
\* just_pressed, just_released) called with an index outside 0..15, negative or
\* greater than 15, fails with a range error surfaced to the caller and leaves the
\* frame buffer and both scan buffers unchanged.
C11_IndexRange ==
    \A x \in OutOfRangeInputs :
        \A name \in {"led_on", "led_off", "led_status", "just_pressed", "just_released"} :
            LET res == TRELLIS_call(Self(Solo), name, x, NoScan)
            IN /\ res.r.t \in {"ValueError", "IndexError"}
               /\ res.self = Self(Solo)

\* C12: for a set of N boards, a set-wide per-index operation (led_on, led_off,
\* led_status, just_pressed, just_released) called with no explicit board and a
\* global index g < 0 or g >= 16N does not raise: it returns False and leaves every
\* board's frame buffer and scan buffers unchanged.
C12_GlobalOutOfRange ==
    LET n == Len(matrices)
    IN \A g \in ((0 - 3) .. (0 - 1)) \cup ((16 * n) .. ((16 * n) + 17)) :
           \A res \in {MATRIX_led_on(World, matrices, g, <<>>),
                       MATRIX_led_off(World, matrices, g, <<>>),
                       MATRIX_led_status(World, matrices, g, <<>>),
                       MATRIX_just_pressed(World, matrices, g, <<>>),
                       MATRIX_just_released(World, matrices, g, <<>>)} :
               /\ res.r = PyBool(FALSE)
               /\ res.world = World

\* position of the first occurrence of board b in args
FirstAt(args, b) == CHOOSE i \in 1 .. Len(args) :
                        args[i] = b /\ \A j \in 1 .. (i - 1) : args[j] # b

\* C13: constructing a board set with zero boards fails, with more than 8 board
\* references fails, and in both cases no set exists afterwards; with 1 to 8
\* references it succeeds, also when references repeat, and the set holds each
\* distinct board once, in order of first occurrence.
C13_Constructor ==
    /\ \A args \in CtorInputs :
           LET res == MATRIX_init(args)
               ms == res.matrices
           IN IF Len(args) = 0 \/ Len(args) > 8
              THEN res.r = Raise("ValueError") /\ ms = <<>>
              ELSE /\ res.r = PyNone
                   /\ Range(ms) = Range(args)
                   /\ Len(ms) = Cardinality(Range(args))
                   /\ \A i, j \in 1 .. Len(ms) :
                          i < j => FirstAt(args, ms[i]) < FirstAt(args, ms[j])
    /\ Len(matrices) = Cardinality(Range(matrices))
    /\ Len(matrices) <= 8

\* a set of 2 boards was constructed from 3 references, the first one repeated,
\* and 8 references to the same two boards would give the same set, 9 none
C13_Witness ==
    /\ Len(matrices) = 2
    /\ MATRIX_init(<<matrices[1], matrices[2], matrices[1]>>).matrices = matrices
    /\ \E args \in CtorInputs : Len(args) = 8 /\ MATRIX_init(args).matrices = matrices
    /\ \E args \in CtorInputs : Len(args) = 9 /\ MATRIX_init(args).r = Raise("ValueError")

\* C14: set-wide just_pressed / just_released called with more than one explicit
\* board fails with an error without querying any board; called with exactly one
\* explicit board it returns that board's result for the raw, un-remapped button.
C14_EdgeTargets ==
    \A targets \in TargetLists \ {<<>>} :
        \A button \in (0 .. 15) \cup {0 - 1, 16, 16 + SetLedLocal} :
            LET pressed == MATRIX_just_pressed(World, matrices, button, targets)
                released == MATRIX_just_released(World, matrices, button, targets)
                b == targets[1]
            IN /\ pressed.world = World /\ released.world = World
               /\ pressed.tx = <<>> /\ released.tx = <<>>
               /\ IF Len(targets) > 1
                  THEN pressed.r = Raise("ValueError") /\ released.r = Raise("ValueError")
                  ELSE /\ pressed.r = TRELLIS_just_pressed(Self(b), button).r
                       /\ released.r = TRELLIS_just_released(Self(b), button).r
                       /\ button \in 0 .. 15 =>
                              /\ Truthy(pressed.r) <=>
                                     (/\ ButtonBitSet(buttons_buffer[b], button)
                                      /\ ~ButtonBitSet(last_buttons[b], button))
                              /\ Truthy(released.r) <=>
                                     (/\ ~ButtonBitSet(buttons_buffer[b], button)
                                      /\ ButtonBitSet(last_buttons[b], button))
                       /\ button > 15 => pressed.r = Raise("ValueError")

\* the second board of a two-board set saw a press of button k, the first board
\* did not: asked with the second board given, the set reports it at k, not at
\* 16 + k, and with both boards given it raises
C14_Witness ==
    /\ Len(matrices) = 2
    /\ \E k \in 0 .. 15 :
           /\ Truthy(MATRIX_just_pressed(World, matrices, k, <<matrices[2]>>).r)
           /\ ~Truthy(MATRIX_just_pressed(World, matrices, k, <<matrices[1]>>).r)
           /\ ~Truthy(MATRIX_just_pressed(World, matrices, k, <<>>).r)
           /\ Truthy(MATRIX_just_pressed(World, matrices, 16 + k, <<>>).r)
           /\ MATRIX_just_pressed(World, matrices, k, <<matrices[1], matrices[2]>>).r =
                  Raise("ValueError")

(* ------------------------- claims: frame and settings ------------------- *)

\* C15: on a single board, from any reachable frame buffer, after fill(true)
\* led_status(i) is true for every i in 0..15 and after fill(false) it is false for
\* every i in 0..15; fill sets all 16 data bytes (buffer offsets 1..16) to 0xFF or
\* 0x00 respectively.
C15_Fill ==
    \A c \in {0, 1, 2, 255} :
        LET res == TRELLIS_fill(Self(Solo), c)
        IN /\ res.r = PyNone
           /\ \A i \in 1 .. 16 : res.self.led_buffer[i] = IF c = 0 THEN 0 ELSE 255
           /\ \A i \in 0 .. 15 : TRELLIS_led_status(res.self, i).r = PyBool(c # 0)
           /\ [res.self EXCEPT !.led_buffer = led_buffer[Solo]] = Self(Solo)

\* fill(1) acted, and led_off then put one LED out: the next fill(1) lights it
\* again and the next fill(0) clears 15 lit LEDs
C15_Witness ==
    /\ led_buffer[Solo][16] = 255
    /\ Cardinality({i \in 0 .. 15 : TRELLIS_led_status(Self(Solo), i).r = PyBool(TRUE)}) = 15
    /\ Cardinality({i \in 1 .. 16 : led_buffer[Solo][i] = 255}) = 15

\* C16: led_on, led_off, led_status, fill, just_pressed and just_released perform
\* no transport transaction; show() performs exactly one write transaction whose
\* payload is the 17-byte frame buffer as it stands at the call, and leaves the
\* frame buffer unchanged.
C16_TransportOnlyInShow ==
    /\ \A x \in (0 - 17) .. 17 :
           \A name \in {"led_on", "led_off", "led_status", "fill", "just_pressed",
                        "just_released"} :
               TRELLIS_call(Self(Solo), name, x, NoScan).tx = <<>>
    /\ LET res == TRELLIS_show(Self(Solo))
       IN /\ res.r = PyNone
          /\ res.self = Self(Solo)
          /\ Len(res.tx) = 1
          /\ res.tx[1].kind = "write"
          /\ Len(res.tx[1].data) = 17
          /\ \A j \in 0 .. 16 : res.tx[1].data[j + 1] = led_buffer[Solo][j]

\* LEDs were switched after a fill and keys were scanned: show() would send a frame
\* that is neither blank nor full
C16_Witness ==
    /\ led_buffer[Solo][16] = 255
    /\ \E j \in 1 .. 8 : led_buffer[Solo][j] \notin {0, 255}
    /\ buttons_buffer[Solo] # last_buttons[Solo]
    /\ TRELLIS_show(Self(Solo)).tx[1].data[17] = 255

\* integers passed as a setting: negative, in range, and wider than a byte
SettingInputs == (0 - 20) .. 300

\* C17: for every integer input, brightness(v) stores v masked to 4 bits and
\* transmits exactly one command byte equal to 0xE0 OR the stored value;
\* blink_rate(r) stores r masked to 2 bits and transmits exactly one command byte
\* equal to 0x80 OR 0x01 OR (stored value shifted left by 1).
C17_Settings ==
    \A v \in SettingInputs :
        LET b == TRELLIS_brightness(Self(Solo), v)
            r == TRELLIS_blink_rate(Self(Solo), v)
        IN /\ b.self = [Self(Solo) EXCEPT !.brightness = v % 16]
           /\ b.r = PyNone
           /\ b.tx = <<[kind |-> "write", data |-> <<224 + (v % 16)>>]>>
           /\ r.self = [Self(Solo) EXCEPT !.blink_rate = v % 4]
           /\ r.r = PyNone
           /\ r.tx = <<[kind |-> "write", data |-> <<128 + 1 + (2 * (v % 4))>>]>>

\* brightness(20) and blink_rate(5) acted: 4 and 1 are stored
C17_Witness ==
    /\ brightness[Solo] = 4
    /\ blink_rate[Solo] = 1
    /\ TRELLIS_brightness(Self(Solo), 20).tx[1].data = <<228>>
    /\ TRELLIS_blink_rate(Self(Solo), 5).tx[1].data = <<131>>

\* C18: calling brightness or blink_rate in getter form (with no argument) returns
\* the value last stored by the setter without any transport I/O; in every state
\* reachable after construction that value is in 0..15 for brightness (15 right
\* after construction) and in 0..3 for blink rate (0 right after construction).
C18_Getters ==
    LET b == TRELLIS_brightness_call(Self(Solo), <<>>)
        r == TRELLIS_blink_rate_call(Self(Solo), <<>>)
    IN /\ b.r = PyInt(brightness[Solo]) /\ b.tx = <<>> /\ b.self = Self(Solo)
       /\ r.r = PyInt(blink_rate[Solo]) /\ r.tx = <<>> /\ r.self = Self(Solo)
       /\ brightness[Solo] \in 0 .. 15
       /\ blink_rate[Solo] \in 0 .. 3
       /\ TRELLIS_init.brightness = 15
       /\ TRELLIS_init.blink_rate = 0

\* the position a table value decodes to: (value >> 4, value & 0x0F)
Decoded(value) == <<value \div 16, value % 16>>

\* C19: the 16 (register-pair index, bit offset) positions decoded from the LED
\* table are pairwise distinct, and the 16 (byte index, bit offset) positions
\* decoded from the button table are pairwise distinct.
\* so that the LEDs reported lit and the buttons reported down are as many as the
\* table positions they occupy in the buffers.
C19_TablesInjective ==
    /\ Len(ledLUTValues) = 16
    /\ Len(buttonLUTValues) = 16
    /\ \A i, j \in 1 .. 16 :
           i # j => /\ Decoded(ledLUTValues[i]) # Decoded(ledLUTValues[j])
                    /\ Decoded(buttonLUTValues[i]) # Decoded(buttonLUTValues[j])
    /\ LET lit == {i \in 0 .. 15 : TRELLIS_led_status(Self(Solo), i).r = PyBool(TRUE)}
           down == {b \in 0 .. 15 : key_bit(buttons_buffer[Solo], b) # 0}
       IN /\ Cardinality({Decoded(ledLUTValues[i + 1]) : i \in lit}) = Cardinality(lit)
          /\ Cardinality({Decoded(buttonLUTValues[b + 1]) : b \in down}) = Cardinality(down)

\* number of bits set in bytes lo..hi of a buffer
BitsSet(buf, lo, hi) == Cardinality({<<i, k>> \in (lo .. hi) \X (0 .. 7) : Bit(buf[i], k) = 1})

\* the tables were applied: three LEDs switched on from a cleared frame occupy
\* three bits of it, and the scan that read four key bits shows four buttons down
C19_Witness ==
    /\ Cardinality({i \in 0 .. 15 : TRELLIS_led_status(Self(Solo), i).r = PyBool(TRUE)}) = 3
    /\ BitsSet(led_buffer[Solo], 1, 16) = 3
    /\ BitsSet(buttons_buffer[Solo], 0, 5) = 4
    /\ Cardinality({b \in 0 .. 15 : ButtonBitSet(buttons_buffer[Solo], b)}) = 4

(* ------------------------- claims: edges in time ------------------------ *)

\* no button reports a press or a release on the solo board
NoEdges ==
    \A b \in 0 .. 15 : /\ ~Truthy(TRELLIS_just_pressed(Self(Solo), b).r)
                       /\ ~Truthy(TRELLIS_just_released(Self(Solo), b).r)

\* one scan of the solo board: the previous buffer holds what the scan before read,
\* the current buffer what the last scan read, the primed current buffer what this
\* scan reads.  A bit that came up at the last scan and is still up is reported
\* before this scan and not after it (likewise a bit that went down and stays
\* down), and a scan that reads what the last one read leaves no edge at all.
EdgeStep ==
    /\ \A b \in 0 .. 15 :
           /\ (/\ ~ButtonBitSet(last_buttons[Solo], b)
               /\ ButtonBitSet(buttons_buffer[Solo], b)
               /\ ButtonBitSet(buttons_buffer'[Solo], b))
              => /\ Truthy(TRELLIS_just_pressed(Self(Solo), b).r)
                 /\ ~Truthy(TRELLIS_just_pressed(Self(Solo)', b).r)
           /\ (/\ ButtonBitSet(last_buttons[Solo], b)
               /\ ~ButtonBitSet(buttons_buffer[Solo], b)
               /\ ~ButtonBitSet(buttons_buffer'[Solo], b))
              => /\ Truthy(TRELLIS_just_released(Self(Solo), b).r)
                 /\ ~Truthy(TRELLIS_just_released(Self(Solo)', b).r)
    /\ buttons_buffer'[Solo] = buttons_buffer[Solo] => NoEdges'

\* C20: an edge lasts exactly one scan interval: if button b's bit is clear in the
\* data read by scan n-1 and set in the data read by scans n and n+1, just_pressed(b)
\* is truthy between scan n and scan n+1 and falsy after scan n+1 until a later scan
\* (symmetrically for just_released); before the first scan, and after any scan that
\* read the same raw data as the scan before it, just_pressed and just_released are
\* falsy for all 16 buttons.
C20_EdgeOneInterval == NoEdges /\ [][EdgeStep]_vars

\* a key held through the last two scans reports nothing, and a key that went down
\* at the last scan reports a press now and none after a next scan that reads it
\* down again
C20_Witness ==
    /\ \E b \in 0 .. 15 :
           /\ ButtonBitSet(last_buttons[Solo], b)
           /\ ButtonBitSet(buttons_buffer[Solo], b)
           /\ ~Truthy(TRELLIS_just_pressed(Self(Solo), b).r)
    /\ \E b \in 0 .. 15 :
           /\ Truthy(TRELLIS_just_pressed(Self(Solo), b).r)
           /\ \E raw \in ManyScanInputs :
                  LET after == TRELLIS_read_buttons(Self(Solo), raw).self
                  IN /\ ButtonBitSet(after.buttons_buffer, b)
                     /\ ~Truthy(TRELLIS_just_pressed(after, b).r)

(* ------------------------- claims: the board list ----------------------- *)

\* the list of a set that exists: 1 to 8 boards, none twice
ListInv ==
    matrices # <<>> =>
        /\ Len(matrices) \in 1 .. 8
        /\ \A i, j \in 1 .. Len(matrices) : i # j => matrices[i] # matrices[j]

\* the board at position k is the one addressed for global indices 16k..16k+15:
\* the per-index operations of the set act on it, with the local index, and on no
\* other board
AddressInv ==
    \A k \in 0 .. (Len(matrices) - 1) :
        \A g \in (16 * k) .. ((16 * k) + 15) :
            LET b == matrices[k + 1]
                l == g - (16 * k)
                on == MATRIX_led_on(World, matrices, g, <<>>)
                off == MATRIX_led_off(World, matrices, g, <<>>)
            IN /\ on.world = [World EXCEPT ![b] = TRELLIS_led_on(Self(b), l).self]
               /\ off.world = [World EXCEPT ![b] = TRELLIS_led_off(Self(b), l).self]
               /\ on.world[b].led_buffer[LedByte(l)] =
                      WithBit(led_buffer[b][LedByte(l)], LedBit(l), 1)
               /\ MATRIX_led_status(World, matrices, g, <<>>).r =
                      PyBool(Bit(led_buffer[b][LedByte(l)], LedBit(l)) = 1)
               /\ MATRIX_just_pressed(World, matrices, g, <<>>).r =
                      TRELLIS_just_pressed(Self(b), l).r
               /\ MATRIX_just_released(World, matrices, g, <<>>).r =
                      TRELLIS_just_released(Self(b), l).r

\* C21: in every state reachable after a board set is constructed, and after any
\* sequence of set-wide operations (with or without explicit boards), the set's
\* board list is unchanged from construction, contains between 1 and 8 boards,
\* contains no board twice, and the board at position k is the one that set-wide
\* operations address for global indices 16k..16k+15.
C21_BoardList == [](ListInv /\ AddressInv) /\ [][matrices' = matrices]_vars

\* a set of two boards listed against their creation order, after a fill of its
\* first board alone and led_on(20): position 0 is lit throughout, position 1 has
\* its LED 4 lit and no other
C21_Witness ==
    /\ Len(matrices) = 2
    /\ matrices[1] > matrices[2]
    /\ led_buffer[matrices[1]][16] = 255
    /\ led_buffer[matrices[2]] = [Zeros(17) EXCEPT ![6] = 1]
    /\ MATRIX_led_status(World, matrices, 4, <<>>).r = PyBool(TRUE)
    /\ MATRIX_led_status(World, matrices, 20, <<>>).r = PyBool(TRUE)
    /\ MATRIX_led_status(World, matrices, 21, <<>>).r = PyBool(FALSE)

(* ------------------------- claims: the frame layout --------------------- *)

\* the register pair of the table entry an accepted index x selects (a negative x
\* counts from the end of the table)
PairOf(x) == (IF x >= 0 THEN ledLUTValues[x + 1] ELSE ledLUTValues[17 + x]) \div 16

\* C22: in every reachable state of a board, after any sequence of led_on, led_off,
\* fill, show and scan operations with any accepted index, byte 0 of the 17-byte
\* frame buffer is zero (so every frame sent by show starts with the 0x00 register
\* address), and led_on / led_off only ever modify buffer offsets 2*pair+1 and
\* 2*pair+2 of the LED's register pair.
C22_FrameLayout ==
    /\ led_buffer[Solo][0] = 0
    /\ TRELLIS_show(Self(Solo)).tx[1].data[1] = 0
    /\ \A x \in (0 - 18) .. 18 :
           LET on == TRELLIS_led_on(Self(Solo), x)
               off == TRELLIS_led_off(Self(Solo), x)
           IN IF on.r = PyNone
              THEN /\ off.r = PyNone
                   /\ x \in (0 - 16) .. 15
                   /\ \A i \in (0 .. 16) \ {(2 * PairOf(x)) + 1, (2 * PairOf(x)) + 2} :
                          /\ on.self.led_buffer[i] = led_buffer[Solo][i]
                          /\ off.self.led_buffer[i] = led_buffer[Solo][i]
              ELSE on.self = Self(Solo) /\ off.self = Self(Solo)

\* LED 15, the one of register pair 0, was switched on in a cleared frame and keys
\* were scanned: byte 1 holds its bit, byte 0 is still the register address
C22_Witness ==
    /\ led_buffer[Solo][1] = 4
    /\ led_buffer[Solo][2] = 0
    /\ led_buffer[Solo][0] = 0
    /\ buttons_buffer[Solo] # Zeros(6)
    /\ TRELLIS_show(Self(Solo)).tx[1].data[2] = 4

(* ------------------------- claims: the scan result as a gate ------------ *)

C24_FailedScan ==
    LET res == TRELLIS_read_buttons_io(Self(Solo), NoScan, FALSE)
    IN /\ res.r = Raise("OSError")
       /\ res.tx = <<[kind |-> "write failed", data |-> <<64>>]>>
       /\ res.self.buttons_buffer = buttons_buffer[Solo]
       /\ res.self.last_buttons = buttons_buffer[Solo]
       /\ res.self.led_buffer = led_buffer[Solo]
       /\ \A b \in 0 .. 15 :
              /\ ~Truthy(TRELLIS_just_pressed(res.self, b).r)
              /\ ~Truthy(TRELLIS_just_released(res.self, b).r)

\* a press and a release are reported from the last scan, and the scan that fails
\* now leaves neither
C24_Witness ==
    /\ \E b \in 0 .. 15 : Truthy(TRELLIS_just_pressed(Self(Solo), b).r)
    /\ \E b \in 0 .. 15 : Truthy(TRELLIS_just_released(Self(Solo), b).r)
    /\ LET after == TRELLIS_read_buttons_io(Self(Solo), NoScan, FALSE).self
       IN /\ after # Self(Solo)
          /\ after.buttons_buffer # Zeros(6)
          /\ \A b \in 0 .. 15 : ~Truthy(TRELLIS_just_pressed(after, b).r)

====
